---- MODULE Spec2Model ----
(***************************************************************************)
(* A model of the marker-cleaning pipeline of the repository:              *)
(*   Step2_data_clean_recursive.py  parse_val, clean_csv, the os.walk loop *)
(*   Step4_trim.py                  compute_trimmed_df                     *)
(* Text (cells, column labels) is a sequence of one-character strings, so  *)
(* that split, strip, startswith, regex matching, int() and float() are    *)
(* computed character by character as the Python code computes them.       *)
(***************************************************************************)
EXTENDS Integers, Sequences, FiniteSets, TLC

\* ------------------------------------------------------------------ text

DigitChars == <<"0", "1", "2", "3", "4", "5", "6", "7", "8", "9">>

IsDigit(c) == \E d \in 1..10 : DigitChars[d] = c

DigitVal(c) == (CHOOSE d \in 1..10 : DigitChars[d] = c) - 1

\* int() of a string of decimal digits: leading zeros do not count.
RECURSIVE ToNat(_)
ToNat(ds) ==
    IF ds = <<>> THEN 0
    ELSE ToNat(SubSeq(ds, 1, Len(ds) - 1)) * 10 + DigitVal(ds[Len(ds)])

\* str() of a natural number, as an f-string renders it: no leading zeros.
RECURSIVE IntStr(_)
IntStr(n) ==
    IF n < 10 THEN <<DigitChars[n + 1]>>
    ELSE IntStr(n \div 10) \o <<DigitChars[(n % 10) + 1]>>

\* s.replace(" ", "")
RemoveSpaces(s) == SelectSeq(s, LAMBDA c : c # " ")

\* s.strip(): leading and trailing spaces removed.
RECURSIVE Strip(_)
Strip(s) ==
    IF s = <<>> THEN s
    ELSE IF s[1] = " " THEN Strip(Tail(s))
    ELSE IF s[Len(s)] = " " THEN Strip(SubSeq(s, 1, Len(s) - 1))
    ELSE s

\* s.split(sep): the parts between the occurrences of the character sep;
\* always at least one part.
RECURSIVE Split(_, _)
Split(s, sep) ==
    IF \A i \in 1..Len(s) : s[i] # sep THEN <<s>>
    ELSE LET k == CHOOSE i \in 1..Len(s) :
                      s[i] = sep /\ \A j \in 1..(i - 1) : s[j] # sep
         IN <<SubSeq(s, 1, k - 1)>> \o Split(SubSeq(s, k + 1, Len(s)), sep)

\* "".join(parts)
RECURSIVE Join(_)
Join(parts) == IF parts = <<>> THEN <<>> ELSE Head(parts) \o Join(Tail(parts))

\* s.startswith(p)
StartsWith(s, p) == Len(s) >= Len(p) /\ SubSeq(s, 1, Len(p)) = p

\* p occurs somewhere in s (str.contains of a literal, unanchored).
Contains(s, p) ==
    \E i \in 1..(Len(s) - Len(p) + 1) : SubSeq(s, i, i + Len(p) - 1) = p

UpperChars == <<"F", "I", "E", "L", "D">>
LowerChars == <<"f", "i", "e", "l", "d">>

\* s.lower(), on the letters the header test reads.
Lower(s) ==
    [i \in 1..Len(s) |->
        IF \E k \in 1..5 : UpperChars[k] = s[i]
        THEN LowerChars[CHOOSE k \in 1..5 : UpperChars[k] = s[i]]
        ELSE s[i]]

\* --------------------------------------------------------------- numbers

\* np.nan, and a float as sign, decimal mantissa and number of decimals
\* (trailing zeros of the fraction dropped, so equal floats are equal values).
NaN == [kind |-> "nan", neg |-> FALSE, mant |-> 0, scale |-> 0]

Num(neg, mant, scale) == [kind |-> "num", neg |-> neg, mant |-> mant, scale |-> scale]

IsNaN(v) == v.kind = "nan"

RECURSIVE StripTrailingZeros(_)
StripTrailingZeros(ds) ==
    IF ds # <<>> /\ ds[Len(ds)] = "0"
    THEN StripTrailingZeros(SubSeq(ds, 1, Len(ds) - 1))
    ELSE ds

\* float(s) for text over digits, sign, dot and characters outside the float
\* grammar: an optional sign, then digits with at most one dot and at least
\* one digit. Anything else raises ValueError, modelled as the result "raise".
FloatLiteral(s) ==
    LET body == IF s # <<>> /\ s[1] \in {"+", "-"} THEN Tail(s) ELSE s
        dots == {i \in 1..Len(body) : body[i] = "."}
    IN /\ \A i \in 1..Len(body) : IsDigit(body[i]) \/ body[i] = "."
       /\ Cardinality(dots) <= 1
       /\ \E i \in 1..Len(body) : IsDigit(body[i])

FloatOf(s) ==
    LET body == IF s # <<>> /\ s[1] \in {"+", "-"} THEN Tail(s) ELSE s
        dots == {i \in 1..Len(body) : body[i] = "."}
        d    == IF dots = {} THEN Len(body) + 1 ELSE CHOOSE i \in dots : TRUE
        ip   == SubSeq(body, 1, d - 1)
        fp   == StripTrailingZeros(SubSeq(body, d + 1, Len(body)))
    IN Num(s[1] = "-", ToNat(ip \o fp), Len(fp))

\* What float() raises on text that is no number.
ValueError == [kind |-> "raise", neg |-> FALSE, mant |-> 0, scale |-> 0]

float_(s) == IF FloatLiteral(s) THEN FloatOf(s) ELSE ValueError

\* parse_val with every dot dropped: a bug that loses the decimal point.
parse_val_dropdots(val) ==
    LET v == RemoveSpaces(val)
        parts == Split(v, ".")
        w == IF Len(parts) > 2 THEN Join(parts) ELSE v
    IN IF float_(w) = ValueError THEN NaN ELSE float_(w)

\* parse_val: spaces removed; with more than two dot-separated parts, all but
\* the last part are joined and the last re-attached after one dot; float()
\* of the result, and np.nan when float() raises (the bare except).
parse_val(val) ==
    LET v == RemoveSpaces(val)
        parts == Split(v, ".")
        w == IF Len(parts) > 2
             THEN Join(SubSeq(parts, 1, Len(parts) - 1)) \o <<".">> \o parts[Len(parts)]
             ELSE v
    IN IF float_(w) = ValueError THEN NaN ELSE float_(w)

\* ------------------------------------------------- parse_val: the inputs

\* The longest generated input string of the parse_val specification.
MaxStrLen == 4

ParseAlphabet == {"1", "0", ".", " ", "a", "-"}

RECURSIVE StringsUpTo(_)
StringsUpTo(n) ==
    IF n = 0 THEN {<<>>}
    ELSE LET prev == StringsUpTo(n - 1)
         IN prev \cup {Append(s, c) : s \in {t \in prev : Len(t) = n - 1}, c \in ParseAlphabet}

\* The inputs the specification names: "127.228.226", "12.5", "abc".
ParseSamples ==
    { <<"1","2","7",".","2","2","8",".","2","2","6">>,
      <<"1","2",".","5">>,
      <<"a","b","c">> }

ParseInputs == StringsUpTo(MaxStrLen) \cup ParseSamples

VARIABLES val, parsed

parseVars == <<val, parsed>>

Pending == [kind |-> "pending", neg |-> FALSE, mant |-> 0, scale |-> 0]

InitParse ==
    /\ val \in ParseInputs
    /\ parsed = Pending

\* df[col].apply(parse_val) on one cell.
ParseCell ==
    /\ parsed = Pending
    /\ parsed' = parse_val(val)
    /\ UNCHANGED val

\* C7: parse_val never raises and returns float() of the input with its
\* spaces removed and, when it has two or more dots, every dot but the last
\* deleted; np.nan when that text is not numeric. "127.228.226" gives
\* 127228.226, "12.5" gives 12.5, "abc" and the empty string give np.nan.
KeptIndices(s) ==
    LET dots == {i \in 1..Len(s) : s[i] = "."}
    IN {i \in 1..Len(s) :
          /\ s[i] # " "
          /\ \/ s[i] # "."
             \/ Cardinality(dots) < 2
             \/ \A j \in dots : j <= i}

Rewritten(s) ==
    LET K == KeptIndices(s)
    IN [j \in 1..Cardinality(K) |->
          s[CHOOSE i \in K : Cardinality({k \in K : k <= i}) = j]]

C7_ParseVal ==
    parsed # Pending =>
        /\ parsed.kind \in {"num", "nan"}
        /\ parsed = IF FloatLiteral(Rewritten(val)) THEN FloatOf(Rewritten(val)) ELSE NaN
        /\ val = <<"1","2","7",".","2","2","8",".","2","2","6">>
              => parsed = Num(FALSE, 127228226, 3)
        /\ val = <<"1","2",".","5">> => parsed = Num(FALSE, 125, 1)
        /\ val \in {<<"a","b","c">>, <<>>} => parsed = NaN

C7_Witness ==
    /\ val = <<"1","2","7",".","2","2","8",".","2","2","6">>
    /\ parsed = Num(FALSE, 127228226, 3)

\* ------------------------------------------------------- column labels

Frame == <<"F", "r", "a", "m", "e">>

field == <<"f", "i", "e", "l", "d">>

unk_ == <<"u", "n", "k", "_">>

Axes == {<<"X">>, <<"Y">>, <<"Z">>}

\* current_marker = None
None == <<>>

\* re.match(r"\*(\d+)", col_val): an asterisk at the start followed by at
\* least one digit; group(1) is the longest run of digits after it.
TagMatches(col_val) ==
    Len(col_val) >= 2 /\ col_val[1] = "*" /\ IsDigit(col_val[2])

TagGroup(col_val) ==
    LET n == CHOOSE k \in 2..Len(col_val) :
                 /\ \A j \in 2..k : IsDigit(col_val[j])
                 /\ k = Len(col_val) \/ ~IsDigit(col_val[k + 1])
    IN SubSeq(col_val, 2, n)

\* One iteration of the labelling loop with the Frame branch appending
\* nothing: a bug that loses the column.
LabelColumn_skipframe(cols, marker, raw_col_val, raw_coord) ==
    LET col_val == Strip(raw_col_val)
        coord   == Strip(raw_coord)
        m       == IF TagMatches(col_val) THEN TagGroup(col_val) ELSE marker
    IN IF StartsWith(Lower(coord), field)
       THEN [new_cols |-> cols, current_marker |-> marker]
       ELSE [new_cols |->
                Append(cols, IF m # None /\ coord \in Axes
                             THEN m \o <<"_">> \o coord
                             ELSE unk_ \o IntStr(Len(cols))),
             current_marker |-> m]

\* One iteration of the labelling loop with the tag of a Frame column taken
\* as the current marker: a bug that attributes later axis columns to it.
LabelColumn_frametag(cols, marker, raw_col_val, raw_coord) ==
    LET col_val == Strip(raw_col_val)
        coord   == Strip(raw_coord)
        m       == IF TagMatches(col_val) THEN TagGroup(col_val) ELSE marker
    IN IF StartsWith(Lower(coord), field)
       THEN [new_cols |-> Append(cols, Frame), current_marker |-> m]
       ELSE [new_cols |->
                Append(cols, IF m # None /\ coord \in Axes
                             THEN m \o <<"_">> \o coord
                             ELSE unk_ \o IntStr(Len(cols))),
             current_marker |-> m]

\* One iteration of the labelling loop over zip(marker_row, coord_row).
LabelColumn(cols, marker, raw_col_val, raw_coord) ==
    LET col_val == Strip(raw_col_val)
        coord   == Strip(raw_coord)
        m       == IF TagMatches(col_val) THEN TagGroup(col_val) ELSE marker
    IN IF StartsWith(Lower(coord), field)
       THEN [new_cols |-> Append(cols, Frame), current_marker |-> marker]
       ELSE [new_cols |->
                Append(cols, IF m # None /\ coord \in Axes
                             THEN m \o <<"_">> \o coord
                             ELSE unk_ \o IntStr(Len(cols))),
             current_marker |-> m]

\* The whole loop: new_cols for a marker-id row and a coordinate row.
RECURSIVE LabelFrom(_, _, _, _, _)
LabelFrom(cols, marker, mrow, crow, i) ==
    IF i > Len(mrow) \/ i > Len(crow) THEN cols
    ELSE LET st == LabelColumn(cols, marker, mrow[i], crow[i])
         IN LabelFrom(st.new_cols, st.current_marker, mrow, crow, i + 1)

NewCols(mrow, crow) == LabelFrom(<<>>, None, mrow, crow, 1)

\* ------------------------------------------- column labels: the inputs

\* The widest generated header of the labelling specification.
MaxCols == 3

TagCells == { <<>>, <<"*", "1">>, <<" ", "*", "0", "6", " ">> }

CoordCells ==
    { <<"X">>, <<" ", "Z">>, <<"F", "i", "e", "l", "d", "#">>,
      <<" ", "f", "i", "e", "l", "d">>, <<>> }

RowsOver(cells, n) == [1..n -> cells]

VARIABLES marker_row, coord_row, new_cols, current_marker, col_pos

labelVars == <<marker_row, coord_row, new_cols, current_marker, col_pos>>

InitLabels ==
    /\ \E n \in 0..MaxCols :
          /\ marker_row \in RowsOver(TagCells, n)
          /\ coord_row \in RowsOver(CoordCells, n)
    /\ new_cols = <<>>
    /\ current_marker = None
    /\ col_pos = 1

\* The next (col_val, coord) pair of the zip.
LabelNext ==
    /\ col_pos <= Len(marker_row)
    /\ LET st == LabelColumn(new_cols, current_marker,
                             marker_row[col_pos], coord_row[col_pos])
       IN /\ new_cols' = st.new_cols
          /\ current_marker' = st.current_marker
    /\ col_pos' = col_pos + 1
    /\ UNCHANGED <<marker_row, coord_row>>

\* C6: the derived label list has one label per column, in column order (as
\* many labels as columns once the loop ends, as many as columns read while
\* it runs), and every unknown label carries its own column index, so no two
\* unknown labels are equal.
C6_LabelsAligned ==
    /\ Len(new_cols) = col_pos - 1
    /\ col_pos > Len(marker_row) => Len(new_cols) = Len(marker_row)
    /\ \A i \in 1..Len(new_cols) :
          StartsWith(new_cols[i], unk_) => new_cols[i] = unk_ \o IntStr(i - 1)
    /\ \A i, j \in 1..Len(new_cols) :
          StartsWith(new_cols[i], unk_) /\ new_cols[i] = new_cols[j] => i = j

C6_Witness ==
    /\ col_pos > Len(marker_row)
    /\ Len(new_cols) = 3
    /\ new_cols[1] = Frame
    /\ new_cols[2] = unk_ \o <<"1">>
    /\ new_cols[3] = <<"0", "6", "_", "X">>

\* ------------------------------------------------ compute_trimmed_df

WINDOW_SIZE == 60

MOVEMENT_THRESHOLD == 3

\* A numeric cell of the table being trimmed: a rational num/den, or NaN.
TNum(n, d) == [kind |-> "num", num |-> n, den |-> d]

TNaN == [kind |-> "nan", num |-> 0, den |-> 1]

frame_distance_col == <<"f","r","a","m","e","_","d","i","s","t","a","n","c","e">>

rolling_mean_col ==
    <<"r","o","l","l","i","n","g","_","m","e","a","n","_","m","o","v","e","m","e","n","t">>

\* The integer square root of a perfect square.
Sqrt(n) == CHOOSE r \in 0..n : r * r = n

\* Positions of the columns whose name contains "_X", "_Y" or "_Z".
MarkerCols(columns) ==
    {c \in 1..Len(columns) :
        \E axis \in {<<"_", "X">>, <<"_", "Y">>, <<"_", "Z">>} : Contains(columns[c], axis)}

RECURSIVE SumOver(_, _)
SumOver(f, S) ==
    IF S = {} THEN 0
    ELSE LET x == CHOOSE y \in S : TRUE IN f[x] + SumOver(f, S \ {x})

\* np.linalg.norm(row1 - row2) over the marker columns: NaN as soon as one
\* difference is NaN.
frame_distance(columns, row1, row2) ==
    LET mc == MarkerCols(columns)
    IN IF \E c \in mc : row1[c].kind = "nan" \/ row2[c].kind = "nan"
       THEN TNaN
       ELSE TNum(Sqrt(SumOver([c \in mc |->
                         (row1[c].num - row2[c].num) * (row1[c].num - row2[c].num)], mc)), 1)

\* distances = [0.0] followed by one distance per row after the first.
Distances(t) ==
    <<TNum(0, 1)>> \o
    [i \in 1..(Len(t.rows) - 1) |-> frame_distance(t.columns, t.rows[i + 1], t.rows[i])]

\* df[name] = values. On a table with no rows pandas takes the index of the
\* values: the table gets one row per value, NaN in every existing column.
SetColumn(t, name, values) ==
    LET base == IF t.rows = <<>> /\ values # <<>>
                THEN [i \in 1..Len(values) |-> [c \in 1..Len(t.columns) |-> TNaN]]
                ELSE t.rows
    IN [columns |-> Append(t.columns, name),
        rows |-> [i \in 1..Len(base) |-> Append(base[i], values[i])]]

\* Series.rolling(w).mean(): at row i the mean of the w values ending there;
\* NaN for the first w-1 rows and wherever the window holds a NaN.
RollingMean(values, w) ==
    [i \in 1..Len(values) |->
        IF i < w \/ \E j \in (i - w + 1)..i : values[j].kind = "nan"
        THEN TNaN
        ELSE TNum(SumOver([j \in (i - w + 1)..i |-> values[j].num], (i - w + 1)..i), w)]

ColumnOf(t, name) ==
    LET c == CHOOSE k \in 1..Len(t.columns) : t.columns[k] = name
    IN [i \in 1..Len(t.rows) |-> t.rows[i][c]]

\* mean > threshold; a comparison with NaN is False.
Exceeds(m, thr) == m.kind = "num" /\ m.num > thr * m.den

\* df[df["rolling_mean_movement"] > MOVEMENT_THRESHOLD].index: the index
\* labels (0-based row numbers of a table read by read_csv), ascending.
ThresholdCrossed(t, thr) ==
    LET rm == ColumnOf(t, rolling_mean_col)
    IN SelectSeq([i \in 1..Len(t.rows) |-> i - 1], LAMBDA i : Exceeds(rm[i + 1], thr))

\* The cut taken at the first crossing instead of the last.
Trimmed_first(t, thr) ==
    LET crossed == ThresholdCrossed(t, thr)
    IN IF Len(crossed) > 0
       THEN [t EXCEPT !.rows = SubSeq(t.rows, 1, crossed[1] + 1)]
       ELSE t

\* df.iloc[: last_active_idx + 1].copy(), or df.copy() when nothing crossed.
Trimmed(t, thr) ==
    LET crossed == ThresholdCrossed(t, thr)
    IN IF Len(crossed) > 0
       THEN [t EXCEPT !.rows = SubSeq(t.rows, 1, crossed[Len(crossed)] + 1)]
       ELSE t

\* t.drop(columns=names)
DropColumns(t, names) ==
    LET keep == {c \in 1..Len(t.columns) : t.columns[c] \notin names}
        pick(seq) == [j \in 1..Cardinality(keep) |->
                        seq[CHOOSE c \in keep : Cardinality({k \in keep : k <= c}) = j]]
    IN [columns |-> pick(t.columns),
        rows |-> [i \in 1..Len(t.rows) |-> pick(t.rows[i])]]

\* ------------------------------------ compute_trimmed_df: the inputs

\* The most rows of a generated table, and the largest generated window
\* besides the program's own.
MaxTrimRows == 4

MaxWindow == 2

TrimColumns == <<Frame, <<"1", "_", "X">>, <<"1", "_", "Y">>>>

\* Marker positions whose differences have integer norms (0, 3, 4, 5), and
\* one sample with a missing coordinate.
TrimSamples ==
    { <<TNum(0, 1), TNum(0, 1)>>, <<TNum(3, 1), TNum(0, 1)>>, <<TNum(0, 1), TNum(4, 1)>>,
      <<TNum(3, 1), TNum(4, 1)>>, <<TNaN, TNum(0, 1)>> }

TrimTables ==
    UNION { { [columns |-> TrimColumns,
               rows |-> [i \in 1..n |-> <<TNum(i - 1, 1)>> \o f[i]]] :
              f \in [1..n -> TrimSamples] } : n \in 0..MaxTrimRows }

VARIABLES df, df_before, df_trimmed, returned, tpc, windowSize, movementThreshold

trimVars == <<df, df_before, df_trimmed, returned, tpc, windowSize, movementThreshold>>

NoTable == [columns |-> <<>>, rows |-> <<>>]

InitTrim ==
    /\ df \in TrimTables
    /\ df_before = df
    /\ df_trimmed = NoTable
    /\ returned = NoTable
    /\ tpc = "distances"
    /\ windowSize \in (1..MaxWindow) \cup {WINDOW_SIZE}
    /\ movementThreshold \in {0, MOVEMENT_THRESHOLD}

\* Lines 25-39: the distances, stored in the caller's table.
TrimDistances ==
    /\ tpc = "distances"
    /\ df' = SetColumn(df, frame_distance_col, Distances(df))
    /\ tpc' = "rolling"
    /\ UNCHANGED <<df_before, df_trimmed, returned, windowSize, movementThreshold>>

\* Line 40: the rolling mean, stored in the caller's table.
TrimRolling ==
    /\ tpc = "rolling"
    /\ df' = SetColumn(df, rolling_mean_col,
                       RollingMean(ColumnOf(df, frame_distance_col), windowSize))
    /\ tpc' = "select"
    /\ UNCHANGED <<df_before, df_trimmed, returned, windowSize, movementThreshold>>

\* Lines 42-49: the cut.
TrimSelect ==
    /\ tpc = "select"
    /\ df_trimmed' = Trimmed(df, movementThreshold)
    /\ tpc' = "drop"
    /\ UNCHANGED <<df, df_before, returned, windowSize, movementThreshold>>

\* Line 52: the helper columns dropped from the copy that is returned.
TrimReturn ==
    /\ tpc = "drop"
    /\ returned' = DropColumns(df_trimmed, {frame_distance_col, rolling_mean_col})
    /\ tpc' = "done"
    /\ UNCHANGED <<df, df_before, df_trimmed, windowSize, movementThreshold>>

\* --------------------------------------------------- clean_csv: helpers

\* The keywords determine_base_markers looks for in the lower-cased path.
\* ("praezision" stands for the keyword spelt with a-umlaut.)
FiveMarkerKeys == {"gewicht", "greifen", "praezision"}

OneMarkerKeys == {"ptp", "ptp2", "ptp3", "sequentiell", "zickzack", "kreis"}

\* determine_base_markers, on the set of keywords the path contains.
determine_base_markers(path) ==
    IF path \cap FiveMarkerKeys # {} THEN <<1, 2, 3, 4, 5>>
    ELSE IF path \cap OneMarkerKeys # {} THEN <<1>>
    ELSE <<1>>

UnknownGroup(path) == path \cap (FiveMarkerKeys \cup OneMarkerKeys) = {}

SeqToSet(q) == {q[i] : i \in 1..Len(q)}

\* The ascending list of a set of numbers.
RECURSIVE Sorted(_)
Sorted(S) ==
    IF S = {} THEN <<>>
    ELSE LET m == CHOOSE x \in S : \A y \in S : x <= y
         IN <<m>> \o Sorted(S \ {m})

\* pd.read_csv(sep=';', header=None, dtype=str): fails on bytes that do not
\* decode, on a file without lines, and on a line with more fields than the
\* first; blank lines are skipped, short lines padded with missing cells.
\* A missing cell is the empty text (what fillna("") makes of it, and what
\* parse_val turns into np.nan either way).
NonBlank(lines) == SelectSeq(lines, LAMBDA l : l # << <<>> >>)

ReadFails(f) ==
    \/ ~f.decodable
    \/ NonBlank(f.lines) = <<>>
    \/ \E i \in 1..Len(NonBlank(f.lines)) :
          Len(NonBlank(f.lines)[i]) > Len(NonBlank(f.lines)[1])

read_csv(f) ==
    LET ls == NonBlank(f.lines)
        w  == Len(ls[1])
    IN [i \in 1..Len(ls) |->
          [c \in 1..w |-> IF c <= Len(ls[i]) THEN ls[i][c] ELSE <<>>]]

\* r.str.contains(r"\*1").any(): some cell of the row contains "*1".
HasStar1(row) == \E c \in 1..Len(row) : Contains(row[c], <<"*", "1">>)

\* idxmax() of the per-row booleans: the 0-based index of the first row that
\* contains "*1", and 0 (the first index) when every row is False.
MarkerHdrIdx(raw) ==
    IF \E i \in 1..Len(raw) : HasStar1(raw[i])
    THEN (CHOOSE i \in 1..Len(raw) :
              HasStar1(raw[i]) /\ \A j \in 1..(i - 1) : ~HasStar1(raw[j])) - 1
    ELSE 0

\* c.split("_")[0]
LabelPrefix(c) == Split(c, "_")[1]

\* int(text) succeeds on a non-empty run of digits (the only numeric
\* prefixes the labelling loop produces) and raises ValueError otherwise.
IntOk(text) == text # <<>> /\ \A i \in 1..Len(text) : IsDigit(text[i])

\* The labels line 101 converts: every column but "Frame".
MarkerLabels(columns) == {columns[c] : c \in {k \in 1..Len(columns) : columns[k] # Frame}}

PartitionRaises(columns) == \E c \in MarkerLabels(columns) : ~IntOk(LabelPrefix(c))

all_markers(columns) == Sorted({ToNat(LabelPrefix(c)) : c \in MarkerLabels(columns)})

ExtraMarkers(columns, base) ==
    SelectSeq(all_markers(columns), LAMBDA m : m \notin SeqToSet(base))

\* f"{m}_{axis}"
AxisLabel(m, axis) == IntStr(m) \o <<"_">> \o axis

HasColumn(columns, name) == \E c \in 1..Len(columns) : columns[c] = name

\* row.get(name): the cell under that label, None (as missing as NaN to
\* pd.isna and pd.notna) when no column carries it.
Get(columns, row, name) ==
    IF HasColumn(columns, name)
    THEN row[CHOOSE c \in 1..Len(columns) : columns[c] = name]
    ELSE NaN

\* df.loc[row_idx, [bx, by, bz]] = [vx, vy, vz] on one row.
SetTriplet(columns, row, b, vx, vy, vz) ==
    [c \in 1..Len(columns) |->
        IF columns[c] = AxisLabel(b, <<"X">>) THEN vx
        ELSE IF columns[c] = AxisLabel(b, <<"Y">>) THEN vy
        ELSE IF columns[c] = AxisLabel(b, <<"Z">>) THEN vz
        ELSE row[c]]

\* The base markers an extra marker's sample may go to, as the inner loop
\* tests them on the Series `row`: columns present and all three missing.
Fillable(columns, row, b) ==
    /\ HasColumn(columns, AxisLabel(b, <<"X">>))
    /\ HasColumn(columns, AxisLabel(b, <<"Y">>))
    /\ HasColumn(columns, AxisLabel(b, <<"Z">>))
    /\ IsNaN(Get(columns, row, AxisLabel(b, <<"X">>)))
    /\ IsNaN(Get(columns, row, AxisLabel(b, <<"Y">>)))
    /\ IsNaN(Get(columns, row, AxisLabel(b, <<"Z">>)))

Available(columns, row, e) ==
    /\ ~IsNaN(Get(columns, row, AxisLabel(e, <<"X">>)))
    /\ ~IsNaN(Get(columns, row, AxisLabel(e, <<"Y">>)))
    /\ ~IsNaN(Get(columns, row, AxisLabel(e, <<"Z">>)))

\* The inner loop over base_markers: the first fillable one, 0 when none.
FirstFillable(columns, row, base) ==
    LET ok == {i \in 1..Len(base) : Fillable(columns, row, base[i])}
    IN IF ok = {} THEN 0 ELSE base[CHOOSE i \in ok : \A j \in ok : i <= j]

\* The body of the iterrows loop for one frame: `row` is the Series iterrows
\* yielded, `cur` the frame's cells in df. Whether writes to df show in `row`
\* depends on whether the Series is a view of df's data or a copy (`view`).
RECURSIVE FillFrom(_, _, _, _, _, _, _)
FillFrom(columns, row, cur, extras, k, base, view) ==
    IF k > Len(extras) THEN cur
    ELSE LET e == extras[k]
             b == FirstFillable(columns, row, base)
         IN IF Available(columns, row, e) /\ b # 0
            THEN LET new == SetTriplet(columns, cur, b,
                                Get(columns, row, AxisLabel(e, <<"X">>)),
                                Get(columns, row, AxisLabel(e, <<"Y">>)),
                                Get(columns, row, AxisLabel(e, <<"Z">>)))
                 IN FillFrom(columns, IF view THEN new ELSE row, new,
                             extras, k + 1, base, view)
            ELSE FillFrom(columns, row, cur, extras, k + 1, base, view)

FillRow(columns, row, extras, base, view) ==
    FillFrom(columns, row, row, extras, 1, base, view)

\* cols_to_drop: f"{e}_{axis}" for every extra marker, when in df.columns.
ColsToDrop(columns, extras) ==
    {AxisLabel(e, axis) : e \in SeqToSet(extras), axis \in Axes}
        \cap {columns[c] : c \in 1..Len(columns)}

\* The text to_csv writes for a float: the integer part, a dot and the
\* decimals ("10.0" for a whole number); nothing for NaN.
RECURSIVE Pow10(_)
Pow10(n) == IF n = 0 THEN 1 ELSE 10 * Pow10(n - 1)

RECURSIVE ZeroPad(_, _)
ZeroPad(ds, n) == IF Len(ds) >= n THEN ds ELSE ZeroPad(<<"0">> \o ds, n)

FormatFloat(v) ==
    IF IsNaN(v) THEN <<>>
    ELSE (IF v.neg THEN <<"-">> ELSE <<>>)
         \o IntStr(v.mant \div Pow10(v.scale)) \o <<".">>
         \o (IF v.scale = 0 THEN <<"0">>
             ELSE ZeroPad(IntStr(v.mant % Pow10(v.scale)), v.scale))

\* df.to_csv(sep=";", index=False): the header line of column labels, then
\* one line per row; Frame cells are the text they were read as.
to_csv(t) ==
    <<t.columns>> \o
    [i \in 1..Len(t.rows) |->
        [c \in 1..Len(t.columns) |->
            IF t.columns[c] = Frame THEN t.rows[i][c] ELSE FormatFloat(t.rows[i][c])]]

\* --------------------------------------------------- clean_csv: the inputs

\* The most marker samples (marker triplets over all data rows) and the most
\* data rows of a generated table.
MaxTriplets == 4

MaxRows == 2

Tag(ds) == <<"*">> \o ds

FieldCell == <<"F", "i", "e", "l", "d", " ", "#">>

Col(tag, coord) == [tag |-> tag, coord |-> coord]

FrameGroup == [frame |-> TRUE, cols |-> <<Col(<<>>, FieldCell)>>]

\* A marker as the exports lay it out: the tag over its X column, then Y, Z.
Trip(ds) ==
    [frame |-> FALSE,
     cols |-> <<Col(Tag(ds), <<"X">>), Col(<<>>, <<"Y">>), Col(<<>>, <<"Z">>)>>]

Layouts ==
    { <<FrameGroup, Trip(<<"1">>), Trip(<<"2">>), Trip(<<"6">>), Trip(<<"7">>)>>,
      <<FrameGroup, Trip(<<"1">>), Trip(<<"6">>)>>,
      <<FrameGroup, Trip(<<"1">>), Trip(<<"0", "6">>)>>,
      <<Trip(<<"1">>), Trip(<<"6">>), Trip(<<"7">>)>>,
      <<FrameGroup, Trip(<<"2">>)>>,
      \* the tag in a column of its own, without a coordinate
      <<FrameGroup,
        [frame |-> FALSE,
         cols |-> <<Col(Tag(<<"1">>), <<>>), Col(<<>>, <<"X">>),
                    Col(<<>>, <<"Y">>), Col(<<>>, <<"Z">>)>>]>>,
      \* marker 1 without a Z column
      <<FrameGroup,
        [frame |-> FALSE, cols |-> <<Col(Tag(<<"1">>), <<"X">>), Col(<<>>, <<"Y">>)>>],
        Trip(<<"6">>)>>,
      \* every column a frame column
      <<FrameGroup, [frame |-> TRUE, cols |-> <<Col(Tag(<<"1">>), <<"F", "I", "E", "L", "D">>)>>]>> }

LayoutCols(layout) == Join([g \in 1..Len(layout) |-> layout[g].cols])

\* For every column of the layout, its group and its place in the group.
RECURSIVE ColGroups(_, _)
ColGroups(layout, g) ==
    IF g > Len(layout) THEN <<>>
    ELSE [k \in 1..Len(layout[g].cols) |-> [group |-> g, place |-> k]]
         \o ColGroups(layout, g + 1)

MarkerGroups(layout) == {g \in 1..Len(layout) : ~layout[g].frame}

\* What a data row holds for a marker: the whole sample, nothing, or a
\* partial sample (the first coordinate missing, text for the last one).
Patterns == {"full", "empty", "partial"}

Garbage == <<"a", "b", "c">>

\* The cell of column c in data row r: a number that names both.
DataCell(c, r) == IntStr(c) \o <<".">> \o IntStr(r)

DataRow(layout, pat, r) ==
    LET cg == ColGroups(layout, 1)
    IN [c \in 1..Len(cg) |->
          LET g == cg[c].group
          IN IF layout[g].frame THEN IntStr(r)
             ELSE IF pat[g] = "empty" THEN <<>>
             ELSE IF pat[g] = "partial" /\ cg[c].place = 1 THEN <<>>
             ELSE IF pat[g] = "partial" /\ cg[c].place = Len(layout[g].cols) THEN Garbage
             ELSE DataCell(c, r)]

\* Lines that may precede the header block: none, a title line, a title line
\* that itself contains "*1".
TitleLine(layout, cell) == [c \in 1..Len(LayoutCols(layout)) |-> cell]

Preambles(layout) ==
    { <<>>,
      <<TitleLine(layout, <<"P", "A", "T", "H">>)>>,
      <<TitleLine(layout, <<"r", "u", "n", "*", "1">>)>> }

MarkerLine(layout) == [c \in 1..Len(LayoutCols(layout)) |-> LayoutCols(layout)[c].tag]

CoordLine(layout) == [c \in 1..Len(LayoutCols(layout)) |-> LayoutCols(layout)[c].coord]

Min(a, b) == IF a <= b THEN a ELSE b

MaxDataRows(layout) ==
    IF MarkerGroups(layout) = {} THEN 1
    ELSE Min(MaxRows, MaxTriplets \div Cardinality(MarkerGroups(layout)))

\* The tables over a layout; those with more than one data row start at the
\* header block.
Tables(layout) ==
    UNION { { pre \o <<MarkerLine(layout), CoordLine(layout)>>
                  \o [r \in 1..n |-> DataRow(layout, pats[r], r)] :
              pre \in IF n <= 1 THEN Preambles(layout) ELSE {<<>>},
              pats \in [1..n -> [MarkerGroups(layout) -> Patterns]] } :
            n \in 0..MaxDataRows(layout) }

Paths == { {"greifen"}, {"ptp"} }

File(path, csv, decodable, lines) ==
    [path |-> path, csv |-> csv, decodable |-> decodable, lines |-> lines]

GoodFiles ==
    { File(path, TRUE, TRUE, lines) :
        path \in Paths, lines \in UNION {Tables(layout) : layout \in Layouts} }

\* Files that are no table: bytes that do not decode, no line at all, a data
\* line with a field too many, a header block cut after the marker-id row,
\* and a file that is no .csv; and a table under a path without keyword.
OddFiles ==
    LET lay == <<FrameGroup, Trip(<<"1">>)>>
        full == <<MarkerLine(lay), CoordLine(lay), DataRow(lay, [g \in {2} |-> "full"], 1)>>
    IN { File({}, TRUE, TRUE, full),
         File({"ptp"}, TRUE, FALSE, full),
         File({"ptp"}, TRUE, TRUE, <<>>),
         File({"ptp"}, TRUE, TRUE, <<full[1], full[2], Append(full[3], <<"9">>)>>),
         File({"ptp"}, TRUE, TRUE, <<full[1]>>),
         File({"ptp"}, TRUE, TRUE, <<TitleLine(lay, <<"P", "A", "T", "H">>), full[1]>>),
         File({"ptp"}, FALSE, TRUE, full) }

Files == GoodFiles \cup OddFiles

\* ------------------------------------------- the walk and clean_csv

VARIABLES run, failed_before, input_file, reclean, first_output,
          cpc, log, base_markers, df_raw, marker_hdr_idx, coord_hdr_idx,
          cdf, df_parsed, extra_markers, row_is_view, row_i, output

cleanVars == <<run, failed_before, input_file, reclean, first_output,
               cpc, log, base_markers, df_raw, marker_hdr_idx, coord_hdr_idx,
               cdf, df_parsed, extra_markers, row_is_view, row_i, output>>

NoOutput == [written |-> FALSE, lines |-> <<>>]

NoFile == File({}, FALSE, FALSE, <<>>)

\* The head of the walk's loop: no call of clean_csv is under way.
AtLoopHead ==
    /\ run = "walking"
    /\ input_file = NoFile
    /\ reclean = FALSE
    /\ first_output = NoOutput
    /\ cpc = "idle"
    /\ log = {}
    /\ base_markers = <<>>
    /\ df_raw = <<>>
    /\ marker_hdr_idx = 0
    /\ coord_hdr_idx = 0
    /\ cdf = NoTable
    /\ df_parsed = NoTable
    /\ extra_markers = <<>>
    /\ row_is_view = FALSE
    /\ row_i = 1
    /\ output = NoOutput

InitClean == AtLoopHead /\ failed_before = FALSE

\* The state clean_csv starts from, called on file f (line 57).
Enter(f) ==
    /\ input_file' = f
    /\ run' = "cleaning"
    /\ cpc' = "read"
    /\ log' = IF UnknownGroup(f.path) THEN {"unknown_group"} ELSE {}
    /\ base_markers' = determine_base_markers(f.path)
    /\ df_raw' = <<>>
    /\ marker_hdr_idx' = 0
    /\ coord_hdr_idx' = 0
    /\ cdf' = NoTable
    /\ df_parsed' = NoTable
    /\ extra_markers' = <<>>
    /\ row_is_view' = FALSE
    /\ row_i' = 1
    /\ output' = NoOutput

\* Lines 131-137: the walk reaches a .csv file and calls clean_csv on it.
StartFile ==
    /\ run = "walking"
    /\ \E f \in Files : f.csv /\ Enter(f)
    /\ reclean' = FALSE
    /\ first_output' = NoOutput
    /\ UNCHANGED failed_before

\* Line 133: a file that is no .csv is passed over.
SkipOtherFile ==
    /\ run = "walking"
    /\ \E f \in Files : ~f.csv /\ input_file' = f
    /\ cpc' = "skipped"
    /\ run' = "returned"
    /\ UNCHANGED <<failed_before, reclean, first_output, log, base_markers, df_raw,
                   marker_hdr_idx, coord_hdr_idx, cdf, df_parsed, extra_markers,
                   row_is_view, row_i, output>>

\* clean_csv called on the file it has just written (same relative path, so
\* the same base markers).
StartReclean ==
    /\ run = "returned"
    /\ cpc = "done"
    /\ output.written
    /\ ~reclean
    /\ Enter(File(input_file.path, TRUE, TRUE, output.lines))
    /\ reclean' = TRUE
    /\ first_output' = output
    /\ UNCHANGED failed_before

\* Lines 131-132: clean_csv has returned (its locals are gone) or the file
\* was passed over; the loop goes on to the next file.
NextIteration ==
    /\ run = "returned"
    /\ run' = "walking"
    /\ input_file' = NoFile
    /\ reclean' = FALSE
    /\ first_output' = NoOutput
    /\ cpc' = "idle"
    /\ log' = {}
    /\ base_markers' = <<>>
    /\ df_raw' = <<>>
    /\ marker_hdr_idx' = 0
    /\ coord_hdr_idx' = 0
    /\ cdf' = NoTable
    /\ df_parsed' = NoTable
    /\ extra_markers' = <<>>
    /\ row_is_view' = FALSE
    /\ row_i' = 1
    /\ output' = NoOutput
    /\ UNCHANGED failed_before

\* Lines 59-63: read_csv raises, the message is printed, clean_csv returns.
ReadFailed ==
    /\ cpc = "read"
    /\ ReadFails(input_file)
    /\ log' = log \cup {"failed_to_read"}
    /\ cpc' = "done"
    /\ run' = "returned"
    /\ failed_before' = TRUE
    /\ UNCHANGED <<input_file, reclean, first_output, base_markers, df_raw, marker_hdr_idx,
                   coord_hdr_idx, cdf, df_parsed, extra_markers, row_is_view, row_i, output>>

\* Line 60: the table read.
ReadOk ==
    /\ cpc = "read"
    /\ ~ReadFails(input_file)
    /\ df_raw' = read_csv(input_file)
    /\ cpc' = "locate"
    /\ UNCHANGED <<run, failed_before, input_file, reclean, first_output, log, base_markers,
                   marker_hdr_idx, coord_hdr_idx, cdf, df_parsed, extra_markers,
                   row_is_view, row_i, output>>

\* Lines 65-67: idxmax raises nothing on a table with rows, so the except
\* branch of lines 68-70 is never taken.
LocateHeaders ==
    /\ cpc = "locate"
    /\ marker_hdr_idx' = MarkerHdrIdx(df_raw)
    /\ coord_hdr_idx' = MarkerHdrIdx(df_raw) + 1
    /\ cpc' = "label"
    /\ UNCHANGED <<run, failed_before, input_file, reclean, first_output, log, base_markers,
                   df_raw, cdf, df_parsed, extra_markers, row_is_view, row_i, output>>

\* Line 73: df_raw.iloc[coord_hdr_idx] past the last row raises IndexError,
\* which nothing catches: the script ends.
LabelRaises ==
    /\ cpc = "label"
    /\ coord_hdr_idx >= Len(df_raw)
    /\ cpc' = "raised"
    /\ run' = "aborted"
    /\ UNCHANGED <<failed_before, input_file, reclean, first_output, log, base_markers,
                   df_raw, marker_hdr_idx, coord_hdr_idx, cdf, df_parsed, extra_markers,
                   row_is_view, row_i, output>>

\* Lines 72-95: the labels, and the rows below the coordinate row.
LabelColumns ==
    /\ cpc = "label"
    /\ coord_hdr_idx < Len(df_raw)
    /\ cdf' = [columns |-> NewCols(df_raw[marker_hdr_idx + 1], df_raw[coord_hdr_idx + 1]),
               rows |-> SubSeq(df_raw, coord_hdr_idx + 2, Len(df_raw))]
    /\ cpc' = "parse"
    /\ UNCHANGED <<run, failed_before, input_file, reclean, first_output, log, base_markers,
                   df_raw, marker_hdr_idx, coord_hdr_idx, df_parsed, extra_markers,
                   row_is_view, row_i, output>>

\* Lines 97-99 on a whole table.
ParseTable(t) ==
    [t EXCEPT !.rows =
        [i \in 1..Len(t.rows) |->
            [c \in 1..Len(t.columns) |->
                IF t.columns[c] = Frame THEN t.rows[i][c] ELSE parse_val(t.rows[i][c])]]]

\* Line 101: int() of a label prefix such as "unk" raises ValueError, which
\* nothing catches: the script ends.
PartitionRaisesError ==
    /\ cpc = "parse"
    /\ PartitionRaises(cdf.columns)
    /\ cdf' = ParseTable(cdf)
    /\ cpc' = "raised"
    /\ run' = "aborted"
    /\ UNCHANGED <<failed_before, input_file, reclean, first_output, log, base_markers,
                   df_raw, marker_hdr_idx, coord_hdr_idx, df_parsed, extra_markers,
                   row_is_view, row_i, output>>

\* Lines 97-102: the cells parsed, the markers partitioned. The Series that
\* iterrows yields are copies when the table has a text column (Frame);
\* over float columns alone they are views or copies, as pandas lays the
\* table out.
ParseAndPartition ==
    /\ cpc = "parse"
    /\ ~PartitionRaises(cdf.columns)
    /\ cdf' = ParseTable(cdf)
    /\ df_parsed' = ParseTable(cdf)
    /\ extra_markers' = ExtraMarkers(cdf.columns, base_markers)
    /\ row_is_view' \in IF HasColumn(cdf.columns, Frame) THEN {FALSE} ELSE BOOLEAN
    /\ row_i' = 1
    /\ cpc' = "fill"
    /\ UNCHANGED <<run, failed_before, input_file, reclean, first_output, log, base_markers,
                   df_raw, marker_hdr_idx, coord_hdr_idx, output>>

\* Lines 104-115 for one frame.
FillFrame ==
    /\ cpc = "fill"
    /\ row_i <= Len(cdf.rows)
    /\ cdf' = [cdf EXCEPT !.rows[row_i] =
                  FillRow(cdf.columns, cdf.rows[row_i], extra_markers, base_markers,
                          row_is_view)]
    /\ row_i' = row_i + 1
    /\ UNCHANGED <<run, failed_before, input_file, reclean, first_output, cpc, log,
                   base_markers, df_raw, marker_hdr_idx, coord_hdr_idx, df_parsed,
                   extra_markers, row_is_view, output>>

\* Lines 117-126: the extra columns dropped, the table written.
DropAndWrite ==
    /\ cpc = "fill"
    /\ row_i > Len(cdf.rows)
    /\ cdf' = DropColumns(cdf, ColsToDrop(cdf.columns, extra_markers))
    /\ output' = [written |-> TRUE,
                  lines |-> to_csv(DropColumns(cdf, ColsToDrop(cdf.columns, extra_markers)))]
    /\ log' = log \cup {"cleaned"}
    /\ cpc' = "done"
    /\ run' = "returned"
    /\ UNCHANGED <<failed_before, input_file, reclean, first_output, base_markers, df_raw,
                   marker_hdr_idx, coord_hdr_idx, df_parsed, extra_markers, row_is_view, row_i>>

\* Lines 127-128: to_csv raises (the disk, the path); the message is printed.
SaveFailed ==
    /\ cpc = "fill"
    /\ row_i > Len(cdf.rows)
    /\ cdf' = DropColumns(cdf, ColsToDrop(cdf.columns, extra_markers))
    /\ log' = log \cup {"failed_to_save"}
    /\ cpc' = "done"
    /\ run' = "returned"
    /\ failed_before' = TRUE
    /\ UNCHANGED <<input_file, reclean, first_output, base_markers, df_raw, marker_hdr_idx,
                   coord_hdr_idx, df_parsed, extra_markers, row_is_view, row_i, output>>

\* ------------------------------------------------- the specifications

vars == <<parseVars, labelVars, trimVars, cleanVars>>

IdleParse == val = <<>> /\ parsed = Pending

IdleLabels ==
    /\ marker_row = <<>> /\ coord_row = <<>> /\ new_cols = <<>>
    /\ current_marker = None /\ col_pos = 1

IdleTrim ==
    /\ df = NoTable /\ df_before = NoTable /\ df_trimmed = NoTable /\ returned = NoTable
    /\ tpc = "idle" /\ windowSize = WINDOW_SIZE /\ movementThreshold = MOVEMENT_THRESHOLD

\* The Step2 script: the walk over the input tree, clean_csv on every file.
Init == InitClean /\ IdleParse /\ IdleLabels /\ IdleTrim

Next ==
    \/ StartFile /\ UNCHANGED <<parseVars, labelVars, trimVars>>
    \/ SkipOtherFile /\ UNCHANGED <<parseVars, labelVars, trimVars>>
    \/ StartReclean /\ UNCHANGED <<parseVars, labelVars, trimVars>>
    \/ NextIteration /\ UNCHANGED <<parseVars, labelVars, trimVars>>
    \/ ReadFailed /\ UNCHANGED <<parseVars, labelVars, trimVars>>
    \/ ReadOk /\ UNCHANGED <<parseVars, labelVars, trimVars>>
    \/ LocateHeaders /\ UNCHANGED <<parseVars, labelVars, trimVars>>
    \/ LabelRaises /\ UNCHANGED <<parseVars, labelVars, trimVars>>
    \/ LabelColumns /\ UNCHANGED <<parseVars, labelVars, trimVars>>
    \/ PartitionRaisesError /\ UNCHANGED <<parseVars, labelVars, trimVars>>
    \/ ParseAndPartition /\ UNCHANGED <<parseVars, labelVars, trimVars>>
    \/ FillFrame /\ UNCHANGED <<parseVars, labelVars, trimVars>>
    \/ DropAndWrite /\ UNCHANGED <<parseVars, labelVars, trimVars>>
    \/ SaveFailed /\ UNCHANGED <<parseVars, labelVars, trimVars>>

Spec == Init /\ [][Next]_vars

\* parse_val on one cell.
InitP == InitParse /\ IdleLabels /\ IdleTrim /\ InitClean

NextP ==
    \/ ParseCell /\ UNCHANGED <<labelVars, trimVars, cleanVars>>

SpecParseVal == InitP /\ [][NextP]_vars

\* The labelling loop on one header block.
InitL == InitLabels /\ IdleParse /\ IdleTrim /\ InitClean

NextL ==
    \/ LabelNext /\ UNCHANGED <<parseVars, trimVars, cleanVars>>

SpecHeader == InitL /\ [][NextL]_vars

\* compute_trimmed_df on one table.
InitT == InitTrim /\ IdleParse /\ IdleLabels /\ InitClean

NextT ==
    \/ TrimDistances /\ UNCHANGED <<parseVars, labelVars, cleanVars>>
    \/ TrimRolling /\ UNCHANGED <<parseVars, labelVars, cleanVars>>
    \/ TrimSelect /\ UNCHANGED <<parseVars, labelVars, cleanVars>>
    \/ TrimReturn /\ UNCHANGED <<parseVars, labelVars, cleanVars>>

SpecTrim == InitT /\ [][NextT]_vars

\* ------------------------------------------------------- the claims

\* The marker a label belongs to: the number its prefix spells (the tag
\* "*06" labels the columns of marker 6).
IsAxisLabel(c) ==
    /\ c # Frame
    /\ IntOk(LabelPrefix(c))
    /\ \E axis \in Axes : c = LabelPrefix(c) \o <<"_">> \o axis

ColsOf(columns, m, axis) ==
    {c \in 1..Len(columns) :
        /\ IsAxisLabel(columns[c])
        /\ ToNat(LabelPrefix(columns[c])) = m
        /\ columns[c] = LabelPrefix(columns[c]) \o <<"_">> \o axis}

\* Marker m has all three coordinates in the row.
Complete(columns, row, m) ==
    \A axis \in Axes : \E c \in ColsOf(columns, m, axis) : ~IsNaN(row[c])

\* Marker m has its three columns and no coordinate in the row.
WhollyMissing(columns, row, m) ==
    \A axis \in Axes :
        /\ ColsOf(columns, m, axis) # {}
        /\ \A c \in ColsOf(columns, m, axis) : IsNaN(row[c])

TripletOf(columns, row, m) ==
    [axis \in Axes |-> row[CHOOSE c \in ColsOf(columns, m, axis) : TRUE]]

\* The frames the gap-filling loop has been through.
Processed == IF cpc \in {"fill", "done"} THEN 1..(row_i - 1) ELSE {}

Before(r) == df_parsed.rows[r]

After(r) == cdf.rows[r]

BaseSet == SeqToSet(base_markers)

ExtraSet == SeqToSet(extra_markers)

AvailableExtras(r) == {e \in ExtraSet : Complete(df_parsed.columns, Before(r), e)}

MissingBases(r) == {b \in BaseSet : WhollyMissing(df_parsed.columns, Before(r), b)}

Lowest(S) == CHOOSE x \in S : \A y \in S : x <= y

\* The coordinates of base marker b are as they were before the frame was
\* processed.
Untouched(r, b) ==
    \A axis \in Axes : \A c \in ColsOf(df_parsed.columns, b, axis) :
        \E d \in ColsOf(cdf.columns, b, axis) :
            After(r)[d] = Before(r)[c]

\* C1: in a processed frame where two extra markers e1 < e2 are complete and
\* two base markers b1 < b2 (columns present) are wholly missing, the lowest
\* such base marker holds the triplet of the lowest such extra marker and the
\* next base marker the triplet of the next extra marker.
C1_TwoExtrasTwoBases ==
    \A r \in Processed :
        LET E == AvailableExtras(r)
            B == MissingBases(r)
        IN Cardinality(E) >= 2 /\ Cardinality(B) >= 2 =>
              LET e1 == Lowest(E)
                  e2 == Lowest(E \ {e1})
                  b1 == Lowest(B)
                  b2 == Lowest(B \ {b1})
              IN /\ TripletOf(cdf.columns, After(r), b1)
                        = TripletOf(df_parsed.columns, Before(r), e1)
                 /\ TripletOf(cdf.columns, After(r), b2)
                        = TripletOf(df_parsed.columns, Before(r), e2)

\* C2: in a processed frame where exactly one extra marker is complete, the
\* lowest wholly missing base marker holds that marker's triplet and every
\* other base marker is unchanged; where no extra marker is complete or no
\* base marker is wholly missing, no base marker changes.
C2_OneExtraFillsLowest ==
    \A r \in Processed :
        LET E == AvailableExtras(r)
            B == MissingBases(r)
        IN /\ Cardinality(E) = 1 /\ B # {} =>
                /\ TripletOf(cdf.columns, After(r), Lowest(B))
                      = TripletOf(df_parsed.columns, Before(r), Lowest(E))
                /\ \A b \in BaseSet \ {Lowest(B)} : Untouched(r, b)
           /\ E = {} \/ B = {} => \A b \in BaseSet : Untouched(r, b)

\* C2 on the tables whose labels spell their marker without leading zeros
\* (every label is the f-string of its marker number).
CanonicalLabels ==
    \A c \in 1..Len(df_parsed.columns) :
        IsAxisLabel(df_parsed.columns[c]) =>
            LabelPrefix(df_parsed.columns[c]) = IntStr(ToNat(LabelPrefix(df_parsed.columns[c])))

C2_OnCanonicalLabels == CanonicalLabels => C2_OneExtraFillsLowest

\* C3: the header of every written output holds only Frame and axis columns
\* of base markers: no column of an extra marker, no unk_ placeholder.
C3_OnlyBaseColumns ==
    output.written =>
        \A c \in 1..Len(output.lines[1]) :
            \/ output.lines[1][c] = Frame
            \/ /\ IsAxisLabel(output.lines[1][c])
               /\ ToNat(LabelPrefix(output.lines[1][c])) \in BaseSet

\* C4: once the headers have been looked for in a table that was read: with
\* no row containing "*1" the file is rejected (message, no column labels, no
\* output, clean_csv over); otherwise the marker-id row is the first row
\* containing "*1" and the coordinate row the one after it.
Located == run \in {"cleaning", "returned", "aborted"} /\ cpc \in {"label", "parse", "fill", "done", "raised"} /\ df_raw # <<>>

C4_HeaderNotFound ==
    Located =>
        IF \A i \in 1..Len(df_raw) : ~HasStar1(df_raw[i])
        THEN /\ "could_not_find_headers" \in log
             /\ cdf.columns = <<>>
             /\ ~output.written
             /\ cpc = "done"
        ELSE /\ HasStar1(df_raw[marker_hdr_idx + 1])
             /\ \A j \in 1..marker_hdr_idx : ~HasStar1(df_raw[j])
             /\ coord_hdr_idx = marker_hdr_idx + 1

\* C5: no file ends the run, and a file that fails leaves no output.
C5_FailureIsolated ==
    /\ run # "aborted"
    /\ cpc = "done" /\ "failed_to_read" \in log => ~output.written

\* C10: clean_csv run on its own output writes that output again.
C10_Idempotent ==
    reclean /\ run \in {"returned", "aborted"} =>
        /\ output.written
        /\ output.lines = first_output.lines

\* The rolling mean of the table as it was passed in, computed from its rows:
\* the distance of row i (1-based) from the row before it, and whether the
\* mean of the windowSize distances ending at row i exceeds the threshold.
DistDefined(i) ==
    i = 1 \/ \A c \in {2, 3} :
                df_before.rows[i][c].kind = "num" /\ df_before.rows[i - 1][c].kind = "num"

DistSq(i) ==
    IF i = 1 THEN 0
    ELSE LET dx == df_before.rows[i][2].num - df_before.rows[i - 1][2].num
             dy == df_before.rows[i][3].num - df_before.rows[i - 1][3].num
         IN dx * dx + dy * dy

Dist(i) == CHOOSE d \in 0..DistSq(i) : d * d = DistSq(i)

MeanExceeds(i) ==
    /\ i >= windowSize
    /\ \A j \in (i - windowSize + 1)..i : DistDefined(j)
    /\ SumOver([j \in (i - windowSize + 1)..i |-> Dist(j)], (i - windowSize + 1)..i)
          > movementThreshold * windowSize

Active == {i \in 1..Len(df_before.rows) : MeanExceeds(i)}

LastActive == CHOOSE i \in Active : \A j \in Active : j <= i

\* C8: when some frame's rolling mean exceeds the threshold, the table
\* returned is the input's rows up to and including the last such frame, in
\* order, under the input's columns; never more rows than the input has.
C8_CutAtLastActive ==
    tpc = "done" /\ Active # {} =>
        /\ returned.columns = df_before.columns
        /\ returned.rows = SubSeq(df_before.rows, 1, LastActive)
        /\ Len(returned.rows) <= Len(df_before.rows)

C8_Witness ==
    /\ tpc = "done"
    /\ Cardinality(Active) >= 2
    /\ LastActive < Len(df_before.rows)
    /\ Len(returned.rows) = LastActive

\* C9: when no frame's rolling mean exceeds the threshold (equal does not
\* count, a table shorter than the window has no mean at all), the table
\* returned equals the input.
C9_NoCrossingNoChange ==
    tpc = "done" /\ Active = {} => returned = df_before

\* The columns the labelling loop has read, and what each is by its two
\* cells, both trimmed: a Frame column, or a column whose marker-id cell
\* holds a tag.
ColumnsRead == 1..(col_pos - 1)

IsFrameColumn(i) == StartsWith(Lower(Strip(coord_row[i])), field)

IsTagColumn(i) == ~IsFrameColumn(i) /\ TagMatches(Strip(marker_row[i]))

TagsUpTo(i) == {j \in 1..i : IsTagColumn(j)}

NearestTag(i) == CHOOSE j \in TagsUpTo(i) : \A k \in TagsUpTo(i) : k <= j

MarkerAt(i) ==
    IF TagsUpTo(i) = {} THEN None ELSE TagGroup(Strip(marker_row[NearestTag(i)]))

IsUnknown(label) == StartsWith(label, unk_)

\* C11: with both cells of a column trimmed first, a column whose coordinate
\* cell starts with "field" in any case is labelled Frame and its tag, if it
\* has one, is ignored; any other column is labelled <marker>_<axis> exactly
\* when its coordinate cell is X, Y or Z and a tag stands at or to the left
\* of it among the columns that are not Frame, the marker being the digits
\* of the nearest such tag; every other column is unknown; the current marker
\* after a column is the nearest such tag's digits, or empty before any tag.
C11_LabelFold ==
    /\ current_marker = MarkerAt(col_pos - 1)
    /\ \A i \in ColumnsRead :
          LET coord  == Strip(coord_row[i])
              isAxis == MarkerAt(i) # None /\ coord \in Axes
          IN /\ IsFrameColumn(i) => new_cols[i] = Frame
             /\ ~IsFrameColumn(i) =>
                   /\ isAxis <=> new_cols[i] = MarkerAt(i) \o <<"_">> \o coord
                   /\ ~isAxis <=> IsUnknown(new_cols[i])

C11_Witness ==
    /\ Len(marker_row) = 3
    /\ col_pos > Len(marker_row)
    /\ marker_row[1] = <<"*", "1">>
    /\ new_cols = <<Frame, unk_ \o <<"1">>, <<"0", "6", "_", "Z">>>>
    /\ current_marker = <<"0", "6">>

\* The same fold with the "field" test and the tag test made on the cells as
\* they stand in the table, and only the axis test on the trimmed cell.
FrameAsWritten(i) == StartsWith(Lower(coord_row[i]), field)

TagAsWritten(i) == ~FrameAsWritten(i) /\ TagMatches(marker_row[i])

TagsAsWrittenUpTo(i) == {j \in 1..i : TagAsWritten(j)}

NearestTagAsWritten(i) ==
    CHOOSE j \in TagsAsWrittenUpTo(i) : \A k \in TagsAsWrittenUpTo(i) : k <= j

MarkerAsWrittenAt(i) ==
    IF TagsAsWrittenUpTo(i) = {} THEN None
    ELSE TagGroup(marker_row[NearestTagAsWritten(i)])

C11_UntrimmedCells ==
    \A i \in ColumnsRead :
        LET coord  == Strip(coord_row[i])
            isAxis == MarkerAsWrittenAt(i) # None /\ coord \in Axes
        IN /\ FrameAsWritten(i) => new_cols[i] = Frame
           /\ ~FrameAsWritten(i) =>
                 /\ isAxis <=> new_cols[i] = MarkerAsWrittenAt(i) \o <<"_">> \o coord
                 /\ ~isAxis <=> IsUnknown(new_cols[i])

\* C12: when compute_trimmed_df has returned, the table it was passed has
\* the columns and the rows it had before the call.
C12_InputUnchanged ==
    tpc = "done" => df = df_before

====
